---- MODULE Spec2Model ----
(***************************************************************************)
(* SA-IS suffix array construction (suffix_array/src/sa_is.rs), the        *)
(* validator (suffix_array/src/suffix_array.rs) and the sort-based oracle  *)
(* (suffix_array/src/testing.rs).                                          *)
(*                                                                         *)
(* Arrays and slices are functions over 0..len-1, so that every index of   *)
(* the model is the index of the code.  Each function of the code is an    *)
(* operator; each loop is a RECURSIVE operator that threads the mutable    *)
(* locals of the loop.  One action of the state machine is one call made   *)
(* by SaIsBuilder::build / RecursiveBuilder::build; the recursion of       *)
(* RecursiveBuilder::build is the stack of frames.                         *)
(***************************************************************************)
EXTENDS Integers, Sequences, FiniteSets, TLC

VARIABLES text, n_input, sa, stack, pc, result

vars == <<text, n_input, sa, stack, pc, result>>

(***************************************************************************)
(* Bounds of the model.                                                    *)
(***************************************************************************)
\* Longest enumerated input text over {'a', 'b'}.
MaxLen == 9
\* Longest enumerated input text over {'a', 'b', 'c'}.
MaxLenTernary == 6
\* Lengths around TextSize::MAX that the length check is applied to.
HugeSpan == 3
\* Longest text handed to the validator together with an arbitrary array.
MaxValLen == 4

(***************************************************************************)
(* Program constants.                                                      *)
(***************************************************************************)
\* 2^16.  A length (usize) or a u32 that may be as large as 2^32 is held as
\* [hi, lo] with value hi * 2^16 + lo, 0 <= lo < 2^16: the integers of the
\* model checker stop at 2^31 - 1.
Half == 65536
\* const NULL_NAME: u32 = u32::MAX, the entry 2^32 - 1 of sa; the entries of
\* sa are plain integers, and 2^32 - 1 is written as the u32 it is congruent
\* to modulo 2^32.
NULL_NAME == -1
\* RecursiveBuilder::new(&byte_text, 256).
ByteAlphabetSize == 256
\* 'a' as u8.
ByteA == 97

LType == "L"
SType == "S"
NAType == "N"

(***************************************************************************)
(* Wide numbers.                                                           *)
(***************************************************************************)
Wide(n) == [hi |-> n \div Half, lo |-> n % Half]

\* x + d for a small integer d (of either sign).
WideAdd(x, d) == [hi |-> x.hi + ((x.lo + d) \div Half), lo |-> (x.lo + d) % Half]

WideLess(x, y) == x.hi < y.hi \/ (x.hi = y.hi /\ x.lo < y.lo)

\* TextSize::MAX, TextSize = u32: 2^32 - 1.
TextSizeMAX == [hi |-> Half - 1, lo |-> Half - 1]

(***************************************************************************)
(* Slices.                                                                 *)
(***************************************************************************)
\* slice.len()
SliceLen(s) == Cardinality(DOMAIN s)

\* A Vec / array literal: element i of the code is element i+1 of the tuple.
Slice(seq) == [i \in 0..(Len(seq) - 1) |-> seq[i + 1]]

\* vec![v; len]
VecOf(v, len) == [i \in 0..(len - 1) |-> v]

\* &s[from..]
SliceFrom(s, from) == [i \in 0..(SliceLen(s) - from - 1) |-> s[i + from]]

EmptySlice == VecOf(0, 0)

\* i is an index of s: s[i] panics otherwise.
InBounds(s, i) == i \in DOMAIN s

(***************************************************************************)
(* Text::len and Text::char_at of ByteText and U32Text.                    *)
(***************************************************************************)
TextLen(t) == SliceLen(t)

CharAt(t, index) == t[index]

(***************************************************************************)
(* Text::lms_strings_equal.  The outcome is "true", "false" or "panic"     *)
(* (an index past the end of the text or of ls_type, or the debug_assert). *)
(***************************************************************************)
\* First loop: until a char mismatch or an LType at a.
RECURSIVE LmsScanSTypes(_, _, _, _)
LmsScanSTypes(t, a, b, ls_type) ==
    IF a >= TextLen(t) \/ b >= TextLen(t)
    THEN [a |-> a, b |-> b, out |-> "panic"]
    ELSE IF CharAt(t, a) # CharAt(t, b)
    THEN [a |-> a, b |-> b, out |-> "false"]
    ELSE IF ls_type[a] = LType
    THEN [a |-> a, b |-> b, out |-> "break"]
    ELSE LmsScanSTypes(t, a + 1, b + 1, ls_type)

\* Second loop: until a char mismatch or an SType at a.
RECURSIVE LmsScanLTypes(_, _, _, _)
LmsScanLTypes(t, a, b, ls_type) ==
    LET a1 == a + 1
        b1 == b + 1
    IN  IF a1 >= SliceLen(ls_type)
        THEN [a |-> a1, b |-> b1, out |-> "panic"]
        ELSE IF ls_type[a1] = SType
        THEN [a |-> a1, b |-> b1, out |-> "break"]
        ELSE IF a1 >= TextLen(t) \/ b1 >= TextLen(t)
        THEN [a |-> a1, b |-> b1, out |-> "panic"]
        ELSE IF CharAt(t, a1) # CharAt(t, b1)
        THEN [a |-> a1, b |-> b1, out |-> "false"]
        ELSE LmsScanLTypes(t, a1, b1, ls_type)

\* The tail of lms_strings_equal, after the second loop stopped at (a, b).
LmsTerminalCheck(t, a, b, ls_type) ==
    IF b >= SliceLen(ls_type) THEN "panic"
    ELSE IF ls_type[b] # SType THEN "false"
    ELSE IF a = TextLen(t) \/ b = TextLen(t) THEN "false"
    ELSE IF a > TextLen(t) \/ b > TextLen(t) THEN "panic"
    ELSE IF CharAt(t, a) = CharAt(t, b) THEN "true" ELSE "false"

\* A variant that stops at the first LType and never looks at the rest.
LmsStringsEqual_FirstL(t, a, b, ls_type) ==
    LET s == LmsScanSTypes(t, a, b, ls_type)
    IN  IF s.out # "break" THEN s.out
        ELSE IF ls_type[s.b] # LType THEN "false" ELSE "true"

LmsStringsEqual(t, a, b, ls_type) ==
    IF ~(InBounds(ls_type, a) /\ InBounds(ls_type, b)) THEN "panic"
    ELSE IF ~(ls_type[a] = SType /\ ls_type[b] = SType) THEN "panic"
    ELSE
    LET s == LmsScanSTypes(t, a, b, ls_type)
    IN  IF s.out # "break" THEN s.out
        ELSE IF ls_type[s.b] # LType THEN "false"
        ELSE LET l == LmsScanLTypes(t, s.a, s.b, ls_type)
             IN  IF l.out # "break" THEN l.out
                 ELSE LmsTerminalCheck(t, l.a, l.b, ls_type)

(***************************************************************************)
(* LmsIterator.                                                            *)
(***************************************************************************)
\* while ls_type[pos] == ty { pos += 1 }
RECURSIVE SkipType(_, _, _)
SkipType(ls_type, pos, ty) ==
    IF ls_type[pos] = ty THEN SkipType(ls_type, pos + 1, ty) ELSE pos

\* LmsIterator::next from self.pos: the new self.pos and whether it is Some.
LmsIteratorNext(ls_type, pos) ==
    LET p1 == SkipType(ls_type, pos, SType) + 1
        p2 == SkipType(ls_type, p1, LType)
    IN  [pos |-> p2, some |-> p2 < SliceLen(ls_type) - 1]

\* The items of LmsIterator::new(ls_type), in the order produced.
RECURSIVE LmsIteratorFrom(_, _)
LmsIteratorFrom(ls_type, pos) ==
    LET nx == LmsIteratorNext(ls_type, pos)
    IN  IF nx.some THEN <<nx.pos>> \o LmsIteratorFrom(ls_type, nx.pos)
        ELSE <<>>

LmsIteratorItems(ls_type) == LmsIteratorFrom(ls_type, 0)

(***************************************************************************)
(* SuffixData and RecursiveBuilder::build_suffix_data.                     *)
(***************************************************************************)
\* SuffixData::ls_type: &self.ls_type_buffer[1..]
LsTypeOf(suffix_data) == SliceFrom(suffix_data.ls_type_buffer, 1)

\* SuffixData::prev_ls_type: &self.ls_type_buffer
PrevLsTypeOf(suffix_data) == suffix_data.ls_type_buffer

\* A variant that leaves a position LType when its char equals the next one.
RECURSIVE ClassifyFrom_EqualIsL(_, _, _)
ClassifyFrom_EqualIsL(t, pos, st) ==
    IF pos < 0 THEN st
    ELSE
    LET ch == CharAt(t, pos)
        counted == [st EXCEPT !.char_count[ch] = @ + 1]
        typed ==
            IF ch < st.next_ch
            THEN [counted EXCEPT !.ls_type_buffer[pos + 1] = SType,
                                 !.next_type = SType]
            ELSE IF st.next_type = SType
            THEN [counted EXCEPT !.next_type = LType]
            ELSE counted
    IN  ClassifyFrom_EqualIsL(t, pos - 1, [typed EXCEPT !.next_ch = ch])

\* for pos in (0..len - 1).rev(): the L/S scan with the char counts.
\* ls_type[pos] is ls_type_buffer[pos + 1].
RECURSIVE ClassifyFrom(_, _, _)
ClassifyFrom(t, pos, st) ==
    IF pos < 0 THEN st
    ELSE
    LET ch == CharAt(t, pos)
        counted == [st EXCEPT !.char_count[ch] = @ + 1]
        typed ==
            IF ch < st.next_ch
            THEN [counted EXCEPT !.ls_type_buffer[pos + 1] = SType,
                                 !.next_type = SType]
            ELSE IF st.next_type = SType
            THEN IF ch = st.next_ch
                 THEN [counted EXCEPT !.ls_type_buffer[pos + 1] = SType]
                 ELSE [counted EXCEPT !.next_type = LType]
            ELSE counted
    IN  ClassifyFrom(t, pos - 1, [typed EXCEPT !.next_ch = ch])

\* for (i, &count) in char_count.iter().enumerate(), for i = lo, ..., hi in
\* this order, entered with total_count: the buckets pushed, the bucket
\* indexes pushed and the total_count it ends with.  The range is halved (the
\* right half starts from the total of the left half) so that the nesting of
\* the evaluation stays logarithmic in the alphabet size.
RECURSIVE BuildBucketsFrom(_, _, _, _)
BuildBucketsFrom(char_count, lo, hi, total_count) ==
    IF lo > hi
    THEN [buckets |-> <<>>, bucket_indexes |-> <<>>,
          total_count |-> total_count]
    ELSE IF lo = hi
    THEN LET count == char_count[lo]
         IN  [buckets |-> <<[start |-> total_count,
                             end |-> total_count + count]>>,
              bucket_indexes |-> IF count > 0 THEN <<lo>> ELSE <<>>,
              total_count |-> total_count + count]
    ELSE LET mid == (lo + hi) \div 2
             left == BuildBucketsFrom(char_count, lo, mid, total_count)
             right == BuildBucketsFrom(char_count, mid + 1, hi,
                                       left.total_count)
         IN  [buckets |-> left.buckets \o right.buckets,
              bucket_indexes |-> left.bucket_indexes \o right.bucket_indexes,
              total_count |-> right.total_count]

BuildSuffixData(t, alphabet_size) ==
    LET len == TextLen(t)
        buffer0 == [[i \in 0..(len + 1) |-> LType]
                       EXCEPT ![0] = NAType, ![len + 1] = SType]
        count0 == [VecOf(0, alphabet_size) EXCEPT ![CharAt(t, len - 1)] = @ + 1]
        st0 == [ls_type_buffer |-> buffer0, char_count |-> count0,
                next_ch |-> CharAt(t, len - 1), next_type |-> LType]
        st == IF len >= 2 THEN ClassifyFrom(t, len - 2, st0) ELSE st0
        b == BuildBucketsFrom(st.char_count, 0, alphabet_size - 1, 0)
    IN  [ls_type_buffer |-> st.ls_type_buffer,
         buckets |-> Slice(b.buckets),
         bucket_indexes |-> b.bucket_indexes,
         total_ok |-> (b.total_count = len)]

(***************************************************************************)
(* RecursiveBuilder::assign_ltype and assign_stype.  st holds the mutable  *)
(* arguments sa, bucket_heads and bucket_tails, and panic: an index out of *)
(* bounds (or a TextSize below 0) ends the program, and every loop stops.  *)
(* written is the index of the last store sa[index] = pos.                 *)
(***************************************************************************)
Panicked(st) == [st EXCEPT !.panic = TRUE]

\* A variant that forgets to advance the head counter.
AssignLtype_NoAdvance(t, pos, buckets, st) ==
    IF st.panic \/ ~InBounds(t, pos) THEN Panicked(st)
    ELSE
    LET ch == CharAt(t, pos)
        head_pos == st.bucket_heads[ch]
        index == buckets[ch].start + head_pos
    IN  IF ~InBounds(st.sa, index) THEN Panicked(st)
        ELSE [st EXCEPT !.sa[index] = pos, !.written = index]

AssignLtype(t, pos, buckets, st) ==
    IF st.panic \/ ~InBounds(t, pos) THEN Panicked(st)
    ELSE
    LET ch == CharAt(t, pos)
        head_pos == st.bucket_heads[ch]
        index == buckets[ch].start + head_pos
    IN  IF ~InBounds(st.sa, index) THEN Panicked(st)
        ELSE [st EXCEPT !.bucket_heads[ch] = @ + 1,
                        !.sa[index] = pos,
                        !.written = index]

\* A variant that reads the tail counter before advancing it.
AssignStype_OffByOne(t, pos, buckets, st) ==
    IF st.panic \/ ~InBounds(t, pos) THEN Panicked(st)
    ELSE
    LET ch == CharAt(t, pos)
        tail_pos == st.bucket_tails[ch]
        index == buckets[ch].end - tail_pos
    IN  IF ~InBounds(st.sa, index) THEN Panicked(st)
        ELSE [st EXCEPT !.bucket_tails[ch] = @ + 1,
                        !.sa[index] = pos,
                        !.written = index]

AssignStype(t, pos, buckets, st) ==
    IF st.panic \/ ~InBounds(t, pos) THEN Panicked(st)
    ELSE
    LET ch == CharAt(t, pos)
        tail_pos == st.bucket_tails[ch] + 1
        index == buckets[ch].end - tail_pos
    IN  IF ~InBounds(st.sa, index) THEN Panicked(st)
        ELSE [st EXCEPT !.bucket_tails[ch] = tail_pos,
                        !.sa[index] = pos,
                        !.written = index]

(***************************************************************************)
(* RecursiveBuilder::induced_sort.                                         *)
(***************************************************************************)
\* TRUE.  Arguments are evaluated on demand: looking at a counter of st ends
\* the evaluation of st, so that a loop over the buckets does not pile up the
\* pending updates of all the buckets before it.
Settled(st) == st.bucket_heads[0] >= 0

\* for pos in LmsIterator::new(ls_type) { assign_stype(pos) }
RECURSIVE SeedFromLmsIterator(_, _, _, _)
SeedFromLmsIterator(t, suffix_data, pos, st) ==
    LET nx == LmsIteratorNext(LsTypeOf(suffix_data), pos)
    IN  IF nx.some /\ ~st.panic
        THEN SeedFromLmsIterator(t, suffix_data, nx.pos,
                 AssignStype(t, nx.pos, suffix_data.buckets, st))
        ELSE st

\* One iteration of the Sorted seeding, noted in seed_log: st1 is the state
\* assign_stype(sa[i]) left, pos the sa[i] it was given.
SeedLogged(i, pos, st1) ==
    IF st1.panic THEN st1
    ELSE [st1 EXCEPT !.seed_log = Append(@, <<i, pos, st1.written>>)]

\* A variant that runs i upwards from 0.
RECURSIVE SeedFromSorted_Forward(_, _, _, _)
SeedFromSorted_Forward(t, suffix_data, i, st) ==
    IF i < 0 \/ st.panic THEN st
    ELSE
    LET st0 == SeedFromSorted_Forward(t, suffix_data, i - 1, st)
    IN  IF st0.panic THEN st0
        ELSE IF ~InBounds(st0.sa, i) THEN Panicked(st0)
        ELSE SeedLogged(i, st0.sa[i],
                 AssignStype(t, st0.sa[i], suffix_data.buckets, st0))

\* for i in (0..num_lms).rev() { assign_stype(sa[i]) }, i counting down.
\* seed_log lists, for each iteration, <<i, sa[i] as read, index written>>.
RECURSIVE SeedFromSorted(_, _, _, _)
SeedFromSorted(t, suffix_data, i, st) ==
    IF i < 0 \/ st.panic THEN st
    ELSE IF ~InBounds(st.sa, i) THEN Panicked(st)
    ELSE SeedFromSorted(t, suffix_data, i - 1,
             SeedLogged(i, st.sa[i],
                 AssignStype(t, st.sa[i], suffix_data.buckets, st)))

\* The step of the four induction loops at sa[index]: when the suffix before
\* the one at sa[index] has the type ty, it is assigned (by assign_ltype for
\* LType, by assign_stype for SType).
InduceAt(t, suffix_data, index, ty, st) ==
    IF ~InBounds(st.sa, index) THEN Panicked(st)
    ELSE
    LET pos == st.sa[index]
    IN  IF ~InBounds(PrevLsTypeOf(suffix_data), pos) THEN Panicked(st)
        ELSE IF PrevLsTypeOf(suffix_data)[pos] # ty THEN st
        ELSE IF ty = LType
        THEN AssignLtype(t, pos - 1, suffix_data.buckets, st)
        ELSE AssignStype(t, pos - 1, suffix_data.buckets, st)

\* while i < bucket_heads[b]: the head part of bucket b, left to right.
RECURSIVE InduceLFromHead(_, _, _, _, _)
InduceLFromHead(t, suffix_data, b, i, st) ==
    IF ~st.panic /\ i < st.bucket_heads[b]
    THEN InduceLFromHead(t, suffix_data, b, i + 1,
             InduceAt(t, suffix_data, suffix_data.buckets[b].start + i,
                      LType, st))
    ELSE st

\* for i in bucket.end - bucket_tails[b]..bucket.end: the LMS suffixes of b;
\* the suffix before each of them is assigned without a look at its type.
RECURSIVE InduceLFromTail(_, _, _, _, _)
InduceLFromTail(t, suffix_data, b, i, st) ==
    IF ~st.panic /\ i < suffix_data.buckets[b].end
    THEN IF ~InBounds(st.sa, i) THEN Panicked(st)
         ELSE LET pos == st.sa[i]
                  prev_pos == pos - 1
              IN  InduceLFromTail(t, suffix_data, b, i + 1,
                      AssignLtype(t, prev_pos, suffix_data.buckets, st))
    ELSE st

\* for &b in suffix_data.bucket_indexes.iter(), k the index in the list.
RECURSIVE InduceLTypes(_, _, _, _)
InduceLTypes(t, suffix_data, k, st) ==
    IF k > Len(suffix_data.bucket_indexes) \/ st.panic THEN st
    ELSE
    LET b == suffix_data.bucket_indexes[k]
        st1 == InduceLFromHead(t, suffix_data, b, 0, st)
        st2 == IF st1.bucket_tails[b] > suffix_data.buckets[b].end
               THEN Panicked(st1)
               ELSE InduceLFromTail(t, suffix_data, b,
                        suffix_data.buckets[b].end - st1.bucket_tails[b], st1)
    IN  IF Settled(st2) THEN InduceLTypes(t, suffix_data, k + 1, st2)
        ELSE st2

\* while i < bucket_tails[b]: the tail part of bucket b, right to left.
RECURSIVE InduceSFromTail(_, _, _, _, _)
InduceSFromTail(t, suffix_data, b, i, st) ==
    IF ~st.panic /\ i < st.bucket_tails[b]
    THEN InduceSFromTail(t, suffix_data, b, i + 1,
             InduceAt(t, suffix_data, suffix_data.buckets[b].end - 1 - i,
                      SType, st))
    ELSE st

\* for i in (bucket.start..bucket.start + bucket_heads[b]).rev()
RECURSIVE InduceSFromHead(_, _, _, _, _)
InduceSFromHead(t, suffix_data, b, i, st) ==
    IF ~st.panic /\ i >= suffix_data.buckets[b].start
    THEN InduceSFromHead(t, suffix_data, b, i - 1,
             InduceAt(t, suffix_data, i, SType, st))
    ELSE st

\* for &b in suffix_data.bucket_indexes.iter().rev(), k the index in the list.
RECURSIVE InduceSTypes(_, _, _, _)
InduceSTypes(t, suffix_data, k, st) ==
    IF k < 1 \/ st.panic THEN st
    ELSE
    LET b == suffix_data.bucket_indexes[k]
        st1 == InduceSFromTail(t, suffix_data, b, 0, st)
        st2 == InduceSFromHead(t, suffix_data, b,
                   suffix_data.buckets[b].start + st1.bucket_heads[b] - 1, st1)
    IN  IF Settled(st2) THEN InduceSTypes(t, suffix_data, k - 1, st2)
        ELSE st2

\* A variant that keeps the tail counters of the L pass.
ResetBucketTails_Keep(st) == st

\* bucket_tails.fill(0)
ResetBucketTails(st) ==
    [st EXCEPT !.bucket_tails = VecOf(0, SliceLen(st.bucket_tails))]

\* The end of the seeding loop: sa and bucket_tails as they are then.
SeedingDone(st) ==
    [st EXCEPT !.seeded_sa = st.sa, !.seeded_tails = st.bucket_tails]

\* induced_sort up to the end of the L pass (before bucket_tails.fill(0)).
\* seeded_sa and seeded_tails are sa and bucket_tails as the seeding left
\* them, before the last char is assigned.
\* lms_strings is [kind |-> "LmsIterator"] or
\* [kind |-> "Sorted", num_lms |-> m].
InducedSortLPass(t, alphabet_size, suffix_data, sa0, lms_strings) ==
    LET st0 == [sa |-> sa0,
                bucket_heads |-> VecOf(0, alphabet_size),
                bucket_tails |-> VecOf(0, alphabet_size),
                panic |-> FALSE,
                written |-> -1,
                seed_log |-> <<>>,
                seeded_sa |-> EmptySlice,
                seeded_tails |-> EmptySlice]
        seeded == IF lms_strings.kind = "LmsIterator"
                  THEN SeedFromLmsIterator(t, suffix_data, 0, st0)
                  ELSE SeedFromSorted(t, suffix_data,
                           lms_strings.num_lms - 1, st0)
        last == AssignLtype(t, TextLen(t) - 1, suffix_data.buckets,
                    SeedingDone(seeded))
    IN  IF Settled(last) THEN InduceLTypes(t, suffix_data, 1, last)
        ELSE last

\* A variant that returns after the L pass.
InducedSort_NoSPass(t, alphabet_size, suffix_data, sa0, lms_strings) ==
    LET lpass == InducedSortLPass(t, alphabet_size, suffix_data, sa0,
                                  lms_strings)
    IN  [sa |-> lpass.sa, bucket_tails |-> lpass.bucket_tails,
         panic |-> lpass.panic,
         seeding |-> [sa |-> lpass.seeded_sa,
                      bucket_tails |-> lpass.seeded_tails,
                      log |-> lpass.seed_log]]

\* induced_sort: the sa it leaves, the bucket_tails it returns, whether it
\* panicked on the way, and what the seeding did (sa and bucket_tails at its
\* end, and the reads and writes of the Sorted seeding).
InducedSort(t, alphabet_size, suffix_data, sa0, lms_strings) ==
    LET lpass == InducedSortLPass(t, alphabet_size, suffix_data, sa0,
                                  lms_strings)
        spass == InduceSTypes(t, suffix_data,
                     Len(suffix_data.bucket_indexes), ResetBucketTails(lpass))
    IN  [sa |-> spass.sa, bucket_tails |-> spass.bucket_tails,
         panic |-> spass.panic,
         seeding |-> [sa |-> spass.seeded_sa,
                      bucket_tails |-> spass.seeded_tails,
                      log |-> spass.seed_log]]

(***************************************************************************)
(* RecursiveBuilder::reduce.                                               *)
(***************************************************************************)
\* for i in bucket.end - bucket_tails[b]..bucket.end: copy the LMS positions
\* of one bucket tail to sa[num_lms..].  acc is (sa, num_lms, panic, log);
\* log lists, for each copy, <<i read, index written, pos>>.
\* A variant that copies every entry of the bucket tail, LMS or not.
RECURSIVE CollectLmsInBucket_NoTypeCheck(_, _, _, _)
CollectLmsInBucket_NoTypeCheck(suffix_data, b, i, acc) ==
    IF ~acc.panic /\ i < suffix_data.buckets[b].end
    THEN IF ~InBounds(acc.sa, i) THEN [acc EXCEPT !.panic = TRUE]
         ELSE
         LET pos == acc.sa[i]
         IN  CollectLmsInBucket_NoTypeCheck(suffix_data, b, i + 1,
                 [acc EXCEPT !.sa[acc.num_lms] = pos,
                             !.num_lms = acc.num_lms + 1,
                             !.log = Append(@, <<i, acc.num_lms, pos>>)])
    ELSE acc

RECURSIVE CollectLmsInBucket(_, _, _, _)
CollectLmsInBucket(suffix_data, b, i, acc) ==
    IF ~acc.panic /\ i < suffix_data.buckets[b].end
    THEN IF ~InBounds(acc.sa, i) THEN [acc EXCEPT !.panic = TRUE]
         ELSE
         LET pos == acc.sa[i]
         IN  IF ~InBounds(PrevLsTypeOf(suffix_data), pos)
             THEN [acc EXCEPT !.panic = TRUE]
             ELSE CollectLmsInBucket(suffix_data, b, i + 1,
                      IF PrevLsTypeOf(suffix_data)[pos] = LType
                      THEN [acc EXCEPT !.sa[acc.num_lms] = pos,
                                       !.num_lms = acc.num_lms + 1,
                                       !.log = Append(@, <<i, acc.num_lms,
                                                           pos>>)]
                      ELSE acc)
    ELSE acc

\* for &b in suffix_data.bucket_indexes.iter(): move all LMS pos to the
\* beginning of sa.
RECURSIVE CollectLms(_, _, _, _)
CollectLms(suffix_data, bucket_tails, k, acc) ==
    IF k > Len(suffix_data.bucket_indexes) \/ acc.panic THEN acc
    ELSE
    LET b == suffix_data.bucket_indexes[k]
        acc1 == IF bucket_tails[b] > suffix_data.buckets[b].end
                THEN [acc EXCEPT !.panic = TRUE]
                ELSE CollectLmsInBucket(suffix_data, b,
                         suffix_data.buckets[b].end - bucket_tails[b], acc)
    IN  IF acc1.num_lms >= 0
        THEN CollectLms(suffix_data, bucket_tails, k + 1, acc1)
        ELSE acc1

\* A variant that clears text_len slots and not text_len / 2.
ClearNames_WholeText(sa0, num_lms, text_len) ==
    [i \in DOMAIN sa0 |->
        IF num_lms <= i /\ i < num_lms + text_len
        THEN NULL_NAME ELSE sa0[i]]

\* for i in num_lms..(num_lms + text_len / 2) { sa[i] = NULL_NAME }
ClearNames(sa0, num_lms, text_len) ==
    [i \in DOMAIN sa0 |->
        IF num_lms <= i /\ i < num_lms + (text_len \div 2)
        THEN NULL_NAME ELSE sa0[i]]

\* A variant that calls lms_strings_equal(pos, last_lms_pos).
RECURSIVE NameLmsStrings_Exchanged(_, _, _, _, _)
NameLmsStrings_Exchanged(t, ls_type, num_lms, i, acc) ==
    IF i >= num_lms \/ acc.panic THEN acc
    ELSE
    LET pos == acc.sa[i]
        eq == LmsStringsEqual(t, pos, acc.last_lms_pos, ls_type)
        calls == Append(acc.calls, <<acc.last_lms_pos, pos, eq>>)
    IN  IF eq = "panic"
        THEN [acc EXCEPT !.panic = TRUE, !.calls = calls]
        ELSE IF ~InBounds(acc.sa, num_lms + (pos \div 2))
        THEN [acc EXCEPT !.panic = TRUE, !.calls = calls]
        ELSE IF eq = "true"
        THEN NameLmsStrings_Exchanged(t, ls_type, num_lms, i + 1,
                 [acc EXCEPT !.sa[num_lms + (pos \div 2)] = acc.name_counter,
                             !.calls = calls])
        ELSE NameLmsStrings_Exchanged(t, ls_type, num_lms, i + 1,
                 [acc EXCEPT !.sa[num_lms + (pos \div 2)] = acc.name_counter + 1,
                             !.last_lms_pos = pos,
                             !.name_counter = acc.name_counter + 1,
                             !.calls = calls])

\* for i in 1..num_lms: name the LMS substrings in the order of sa[0..num_lms).
\* acc is (sa, last_lms_pos, name_counter, calls, panic); calls lists the
\* calls of lms_strings_equal as <<a, b, outcome>>.
RECURSIVE NameLmsStrings(_, _, _, _, _)
NameLmsStrings(t, ls_type, num_lms, i, acc) ==
    IF i >= num_lms \/ acc.panic THEN acc
    ELSE
    LET pos == acc.sa[i]
        eq == LmsStringsEqual(t, acc.last_lms_pos, pos, ls_type)
        calls == Append(acc.calls, <<acc.last_lms_pos, pos, eq>>)
    IN  IF eq = "panic"
        THEN [acc EXCEPT !.panic = TRUE, !.calls = calls]
        ELSE IF ~InBounds(acc.sa, num_lms + (pos \div 2))
        THEN [acc EXCEPT !.panic = TRUE, !.calls = calls]
        ELSE IF eq = "true"
        THEN NameLmsStrings(t, ls_type, num_lms, i + 1,
                 [acc EXCEPT !.sa[num_lms + (pos \div 2)] = acc.name_counter,
                             !.calls = calls])
        ELSE NameLmsStrings(t, ls_type, num_lms, i + 1,
                 [acc EXCEPT !.sa[num_lms + (pos \div 2)] = acc.name_counter + 1,
                             !.last_lms_pos = pos,
                             !.name_counter = acc.name_counter + 1,
                             !.calls = calls])

\* A variant that records the slot i itself and not i - num_lms.
RECURSIVE CompactNames_AbsoluteSlot(_, _, _, _)
CompactNames_AbsoluteSlot(num_lms, i, j, acc) ==
    IF i >= SliceLen(acc.sa) THEN [acc EXCEPT !.panic = TRUE]
    ELSE
    LET name == acc.sa[i]
    IN  IF name # NULL_NAME
        THEN LET acc1 == [acc EXCEPT
                             !.reduced_text = Append(@, name),
                             !.sa[j + num_lms] = i]
             IN  IF j + 1 = num_lms THEN acc1
                 ELSE CompactNames_AbsoluteSlot(num_lms, i + 1, j + 1, acc1)
        ELSE CompactNames_AbsoluteSlot(num_lms, i + 1, j, acc)

\* A variant that compares j with num_lms before it advances j.
RECURSIVE CompactNames_LateBreak(_, _, _, _)
CompactNames_LateBreak(num_lms, i, j, acc) ==
    IF i >= SliceLen(acc.sa) THEN [acc EXCEPT !.panic = TRUE]
    ELSE
    LET name == acc.sa[i]
    IN  IF name # NULL_NAME
        THEN IF ~InBounds(acc.sa, j + num_lms)
             THEN [acc EXCEPT !.panic = TRUE]
             ELSE
             LET acc1 == [acc EXCEPT
                             !.reduced_text = Append(@, name),
                             !.sa[j + num_lms] = i - num_lms]
             IN  IF j = num_lms THEN acc1
                 ELSE CompactNames_LateBreak(num_lms, i + 1, j + 1, acc1)
        ELSE CompactNames_LateBreak(num_lms, i + 1, j, acc)

\* The loop that builds reduced_text from the named slots and leaves the
\* mapping sa[j + num_lms] = i - num_lms.  acc is (sa, reduced_text, panic).
RECURSIVE CompactNames(_, _, _, _)
CompactNames(num_lms, i, j, acc) ==
    IF i >= SliceLen(acc.sa) THEN [acc EXCEPT !.panic = TRUE]
    ELSE
    LET name == acc.sa[i]
    IN  IF name # NULL_NAME
        THEN LET acc1 == [acc EXCEPT
                             !.reduced_text = Append(@, name),
                             !.sa[j + num_lms] = i - num_lms]
             IN  IF j + 1 = num_lms THEN acc1
                 ELSE CompactNames(num_lms, i + 1, j + 1, acc1)
        ELSE CompactNames(num_lms, i + 1, j, acc)

\* The result of reduce: kind is "Sorted", "Reduced" or "panic" (a failed
\* assert! or an index out of bounds).  first_loop is what the loop that
\* moves the LMS positions did: sa before and after it, and its copies.
ReduceResult(kind, sa1, num_lms, reduced_text, alphabet_size, calls, loop1) ==
    [kind |-> kind, sa |-> sa1, num_lms |-> num_lms,
     reduced_text |-> reduced_text, alphabet_size |-> alphabet_size,
     lms_calls |-> calls, first_loop |-> loop1]

NoFirstLoop == [sa_in |-> EmptySlice, sa_out |-> EmptySlice, log |-> <<>>]

Reduce(t, suffix_data, sa0, bucket_tails) ==
    LET collected == CollectLms(suffix_data, bucket_tails, 1,
                                [sa |-> sa0, num_lms |-> 0, panic |-> FALSE,
                                 log |-> <<>>])
        num_lms == collected.num_lms
        text_len == TextLen(t)
        first_loop == [sa_in |-> sa0, sa_out |-> collected.sa,
                       log |-> collected.log]
    IN  IF collected.panic \/ ~(num_lms <= text_len \div 2)
        THEN ReduceResult("panic", collected.sa, num_lms, EmptySlice, 0, <<>>,
                          first_loop)
        ELSE IF num_lms < 2
        THEN ReduceResult("Sorted", collected.sa, num_lms, EmptySlice, 0, <<>>,
                          first_loop)
        ELSE IF num_lms + (text_len \div 2) > SliceLen(sa0)
        THEN ReduceResult("panic", collected.sa, num_lms, EmptySlice, 0, <<>>,
                          first_loop)
        ELSE
        LET cleared == ClearNames(collected.sa, num_lms, text_len)
            first == cleared[0]
        IN
        IF ~InBounds(cleared, num_lms + (first \div 2))
        THEN ReduceResult("panic", cleared, num_lms, EmptySlice, 0, <<>>,
                          first_loop)
        ELSE
        LET named == NameLmsStrings(t, LsTypeOf(suffix_data), num_lms, 1,
                         [sa |-> [cleared EXCEPT
                                     ![num_lms + (first \div 2)] = 0],
                          last_lms_pos |-> first,
                          name_counter |-> 0,
                          calls |-> <<>>,
                          panic |-> FALSE])
            name_counter == named.name_counter + 1
        IN  IF named.panic \/ WideLess(TextSizeMAX, Wide(name_counter))
            THEN ReduceResult("panic", named.sa, num_lms, EmptySlice, 0,
                              named.calls, first_loop)
            ELSE IF name_counter = num_lms
            THEN ReduceResult("Sorted", named.sa, num_lms, EmptySlice, 0,
                              named.calls, first_loop)
            ELSE
            LET compact == CompactNames(num_lms, num_lms, 0,
                               [sa |-> named.sa, reduced_text |-> <<>>,
                                panic |-> FALSE])
            IN  ReduceResult(IF compact.panic THEN "panic" ELSE "Reduced",
                             compact.sa, num_lms, Slice(compact.reduced_text),
                             name_counter, named.calls, first_loop)

(***************************************************************************)
(* The loop of RecursiveBuilder::build that maps the positions of the      *)
(* reduced text back to positions of the original text.                    *)
(***************************************************************************)
\* A variant that never adds the 1.
RECURSIVE MapToOriginal_NoAdjust(_, _, _, _)
MapToOriginal_NoAdjust(ls_type, num_lms, i, acc) ==
    IF i >= num_lms \/ acc.panic THEN acc
    ELSE IF ~(InBounds(acc.sa, i) /\ InBounds(acc.sa, num_lms + acc.sa[i]))
    THEN [acc EXCEPT !.panic = TRUE]
    ELSE
    LET pos2 == acc.sa[num_lms + acc.sa[i]] * 2
    IN  IF ~InBounds(ls_type, pos2) THEN [acc EXCEPT !.panic = TRUE]
        ELSE MapToOriginal_NoAdjust(ls_type, num_lms, i + 1,
                 [acc EXCEPT !.sa[i] = pos2])

\* for i in 0..num_lms.  acc is (sa, panic).
RECURSIVE MapToOriginal(_, _, _, _)
MapToOriginal(ls_type, num_lms, i, acc) ==
    IF i >= num_lms \/ acc.panic THEN acc
    ELSE IF ~(InBounds(acc.sa, i) /\ InBounds(acc.sa, num_lms + acc.sa[i]))
    THEN [acc EXCEPT !.panic = TRUE]
    ELSE
    LET pos2 == acc.sa[num_lms + acc.sa[i]] * 2
    IN  IF ~InBounds(ls_type, pos2) THEN [acc EXCEPT !.panic = TRUE]
        ELSE LET pos == IF ls_type[pos2] # SType THEN pos2 + 1 ELSE pos2
             IN  MapToOriginal(ls_type, num_lms, i + 1,
                     [acc EXCEPT !.sa[i] = pos])

(***************************************************************************)
(* testing::naive_suffix_array: the positions sorted by comparing the      *)
(* suffixes as slices (Ord for [u8]).                                      *)
(***************************************************************************)
\* text[a..].cmp(&text[b..]) == Less, comparing from offset k on.
RECURSIVE SliceLessFrom(_, _, _, _)
SliceLessFrom(t, a, b, k) ==
    IF b + k >= TextLen(t) THEN FALSE
    ELSE IF a + k >= TextLen(t) THEN TRUE
    ELSE IF t[a + k] # t[b + k] THEN t[a + k] < t[b + k]
    ELSE SliceLessFrom(t, a, b, k + 1)

SuffixLess(t, a, b) == SliceLessFrom(t, a, b, 0)

\* Insert position p into the sorted sequence s.
RECURSIVE SortedInsert(_, _, _)
SortedInsert(t, s, p) ==
    IF s = <<>> THEN <<p>>
    ELSE IF SuffixLess(t, p, Head(s)) THEN <<p>> \o s
    ELSE <<Head(s)>> \o SortedInsert(t, Tail(s), p)

\* suffix_array.sort_by(...) over the pushed positions 0..len-1.
RECURSIVE SortPositions(_, _)
SortPositions(t, i) ==
    IF i < 0 THEN <<>>
    ELSE SortedInsert(t, SortPositions(t, i - 1), i)

NaiveSuffixArray(t) == Slice(SortPositions(t, TextLen(t) - 1))

(***************************************************************************)
(* validate_suffix_array.  The outcome is "ok" (the function returns) or   *)
(* "panic" (an assert!, the panic! or an index out of bounds).             *)
(***************************************************************************)
\* for i in 0..len { inverse_sa[sa[i]] = i }.  acc is (inverse_sa, panic).
RECURSIVE BuildInverseSa(_, _, _, _)
BuildInverseSa(sa0, len, i, acc) ==
    IF i >= len \/ acc.panic THEN acc
    ELSE IF ~InBounds(sa0, i) THEN [acc EXCEPT !.panic = TRUE]
    ELSE IF ~InBounds(acc.inverse_sa, sa0[i]) THEN [acc EXCEPT !.panic = TRUE]
    ELSE BuildInverseSa(sa0, len, i + 1,
                        [acc EXCEPT !.inverse_sa[sa0[i]] = i])

\* The rank of the suffix after pos, -1 for the last position.
RankAfter(inverse_sa, pos, len) ==
    IF pos = len - 1 THEN -1 ELSE inverse_sa[pos + 1]

\* for i in 1..len - 1, with the locals prev_ch and prev_rank.
RECURSIVE ValidateFrom(_, _, _, _, _, _, _)
ValidateFrom(t, sa0, inverse_sa, len, i, prev_ch, prev_rank) ==
    IF i >= len - 1 THEN "ok"
    ELSE
    LET pos == sa0[i]
        ch == t[pos]
    IN  IF ch = prev_ch
        THEN IF ~(pos + 1 < len) THEN "panic"
             ELSE LET rank == inverse_sa[pos + 1]
                  IN  IF rank <= prev_rank THEN "panic"
                      ELSE ValidateFrom(t, sa0, inverse_sa, len, i + 1,
                                        prev_ch, rank)
        ELSE IF ~(ch > prev_ch) THEN "panic"
             ELSE ValidateFrom(t, sa0, inverse_sa, len, i + 1, ch,
                               RankAfter(inverse_sa, pos, len))

ValidateSuffixArray(t, sa0) ==
    LET len == TextLen(t)
        inv == BuildInverseSa(sa0, len, 0,
                   [inverse_sa |-> VecOf(0, len), panic |-> FALSE])
    IN  IF len = 0 \/ inv.panic THEN "panic"
        ELSE ValidateFrom(t, sa0, inv.inverse_sa, len, 1, t[sa0[0]],
                          RankAfter(inv.inverse_sa, sa0[0], len))

(***************************************************************************)
(* SaIsBuilder::build: the two assert! of the length check, on the length  *)
(* text.len() (a usize).                                                   *)
(***************************************************************************)
\* A variant that compares with TextSize::MAX instead of TextSize::MAX - 1.
LengthSupported_Max(len) == WideLess(len, TextSizeMAX) /\ ~(len = Wide(0))

LengthSupported(len) ==
    WideLess(len, WideAdd(TextSizeMAX, -1)) /\ ~(len = Wide(0))

(***************************************************************************)
(* Input texts.                                                            *)
(***************************************************************************)
BinaryChars == {ByteA, ByteA + 1}

TernaryChars == {ByteA, ByteA + 1, ByteA + 2}

\* Every text of length 1..max_len over chars.
TextsOver(chars, max_len) == UNION {[0..(n - 1) -> chars] : n \in 1..max_len}

EnumTexts ==
    TextsOver(BinaryChars, MaxLen) \cup TextsOver(TernaryChars, MaxLenTernary)

\* "a", "aaaaaaaa", "aaaaaaab", "baaaaaaa", "abaaaaaa", "abababab",
\* "abcbabcba", "ktrthleluzsxleo" of test_short_strings.
TestStrings ==
    { Slice(<<97>>),
      Slice(<<97, 97, 97, 97, 97, 97, 97, 97>>),
      Slice(<<97, 97, 97, 97, 97, 97, 97, 98>>),
      Slice(<<98, 97, 97, 97, 97, 97, 97, 97>>),
      Slice(<<97, 98, 97, 97, 97, 97, 97, 97>>),
      Slice(<<97, 98, 97, 98, 97, 98, 97, 98>>),
      Slice(<<97, 98, 99, 98, 97, 98, 99, 98, 97>>),
      Slice(<<107, 116, 114, 116, 104, 108, 101, 108, 117, 122, 115, 120,
              108, 101, 111>>) }

\* "babaababaababaabab": its reduced text needs a reduction of its own.
DeepTexts ==
    { Slice(<<98, 97, 98, 97, 97, 98, 97, 98, 97, 97, 98, 97, 98, 97, 97,
              98, 97, 98>>) }

Texts == EnumTexts \cup TestStrings \cup DeepTexts

\* Lengths around TextSize::MAX; the bytes of such a text are not enumerated.
HugeLens == {WideAdd(TextSizeMAX, d) : d \in (-HugeSpan)..HugeSpan}

(***************************************************************************)
(* The recursion of RecursiveBuilder::build: one frame per call.           *)
(***************************************************************************)
NoSeeding == [sa |-> EmptySlice, bucket_tails |-> EmptySlice, log |-> <<>>]

NoSuffixData ==
    [ls_type_buffer |-> EmptySlice, buckets |-> EmptySlice,
     bucket_indexes |-> <<>>, total_ok |-> TRUE]

NoReduced ==
    ReduceResult("none", EmptySlice, 0, EmptySlice, 0, <<>>, NoFirstLoop)

\* RecursiveBuilder::new(text, alphabet_size), about to run build.
\* returned_tails is the vector returned by the last induced_sort call and
\* seeding what the seeding of that call did.
NewFrame(kind, t, alphabet_size) ==
    [kind |-> kind, text |-> t, alphabet_size |-> alphabet_size,
     suffix_data |-> NoSuffixData, returned_tails |-> EmptySlice,
     seeding |-> NoSeeding,
     reduced |-> NoReduced, pc |-> "build_suffix_data"]

Depth == Len(stack)

Top == stack[Depth]

SetTop(frame) == [stack EXCEPT ![Depth] = frame]

Init ==
    /\ \/ /\ text \in Texts \cup {EmptySlice}
          /\ n_input = Wide(TextLen(text))
       \/ /\ text = EmptySlice
          /\ n_input \in HugeLens
    /\ sa = EmptySlice
    /\ stack = <<>>
    /\ pc = "start"
    /\ result = EmptySlice

\* SaIsBuilder::build, a failed length assert!.
SaIsBuildAbort ==
    /\ pc = "start"
    /\ ~LengthSupported(n_input)
    /\ pc' = "aborted"
    /\ UNCHANGED <<text, n_input, sa, stack, result>>

\* SaIsBuilder::build on a text whose bytes are not enumerated: the length
\* check passes, the construction itself is not followed.
SaIsBuildHuge ==
    /\ pc = "start"
    /\ LengthSupported(n_input)
    /\ n_input # Wide(TextLen(text))
    /\ pc' = "length_ok"
    /\ UNCHANGED <<text, n_input, sa, stack, result>>

\* SaIsBuilder::build up to the call of sa_builder.build(&mut sa).
SaIsBuildStart ==
    /\ pc = "start"
    /\ LengthSupported(n_input)
    /\ n_input = Wide(TextLen(text))
    /\ sa' = VecOf(0, TextLen(text))
    /\ stack' = <<NewFrame("ByteText", text, ByteAlphabetSize)>>
    /\ pc' = "building"
    /\ UNCHANGED <<text, n_input, result>>

\* let suffix_data = self.build_suffix_data();
DoBuildSuffixData ==
    /\ pc = "building"
    /\ Top.pc = "build_suffix_data"
    /\ LET sd == BuildSuffixData(Top.text, Top.alphabet_size)
       IN  /\ stack' = SetTop([Top EXCEPT !.suffix_data = sd,
                                          !.pc = "induced_sort_lms"])
           /\ pc' = IF sd.total_ok THEN "building" ELSE "panicked"
    /\ UNCHANGED <<text, n_input, sa, result>>

\* let bucket_tails = self.induced_sort(.., InduceSortLmsStrings::LmsIterator);
DoInducedSortLms ==
    /\ pc = "building"
    /\ Top.pc = "induced_sort_lms"
    /\ LET r == InducedSort(Top.text, Top.alphabet_size, Top.suffix_data, sa,
                            [kind |-> "LmsIterator"])
       IN  /\ sa' = r.sa
           /\ stack' = SetTop([Top EXCEPT !.returned_tails = r.bucket_tails,
                                          !.seeding = r.seeding,
                                          !.pc = "reduce"])
           /\ pc' = IF r.panic THEN "panicked" ELSE "building"
    /\ UNCHANGED <<text, n_input, result>>

\* self.reduce(&suffix_data, sa, &bucket_tails)
DoReduce ==
    /\ pc = "building"
    /\ Top.pc = "reduce"
    /\ LET r == Reduce(Top.text, Top.suffix_data, sa, Top.returned_tails)
       IN  /\ sa' = r.sa
           /\ stack' = SetTop([Top EXCEPT
                  !.reduced = [r EXCEPT !.sa = EmptySlice],
                  !.pc = IF r.kind = "Reduced" THEN "recurse"
                         ELSE "induced_sort_sorted"])
           /\ pc' = IF r.kind = "panic" THEN "panicked" ELSE "building"
    /\ UNCHANGED <<text, n_input, result>>

\* ReducedText::Reduced: RecursiveBuilder::new(&new_text, alphabet_size)
\* and the call new_sa_builder.build(sa).
DoRecurse ==
    /\ pc = "building"
    /\ Top.pc = "recurse"
    /\ stack' = Append(SetTop([Top EXCEPT !.pc = "in_recursion"]),
                       NewFrame("U32Text", Top.reduced.reduced_text,
                                Top.reduced.alphabet_size))
    /\ UNCHANGED <<text, n_input, sa, pc, result>>

\* The recursive call returns; the caller maps sa[0..num_lms) back to the
\* positions of its own text.
DoMapToOriginal ==
    /\ pc = "building"
    /\ Depth >= 2
    /\ Top.pc = "returned"
    /\ LET parent == stack[Depth - 1]
           r == MapToOriginal(LsTypeOf(parent.suffix_data),
                              SliceLen(parent.reduced.reduced_text), 0,
                              [sa |-> sa, panic |-> FALSE])
       IN  /\ sa' = r.sa
           /\ stack' = [SubSeq(stack, 1, Depth - 1) EXCEPT
                           ![Depth - 1].pc = "induced_sort_sorted"]
           /\ pc' = IF r.panic THEN "panicked" ELSE "building"
    /\ UNCHANGED <<text, n_input, result>>

\* self.induced_sort(.., InduceSortLmsStrings::Sorted { num_lms }); the build
\* of this frame is over.
DoInducedSortSorted ==
    /\ pc = "building"
    /\ Top.pc = "induced_sort_sorted"
    /\ LET r == InducedSort(Top.text, Top.alphabet_size, Top.suffix_data, sa,
                            [kind |-> "Sorted",
                             num_lms |-> Top.reduced.num_lms])
       IN  /\ sa' = r.sa
           /\ stack' = SetTop([Top EXCEPT !.returned_tails = r.bucket_tails,
                                          !.seeding = r.seeding,
                                          !.pc = "returned"])
           /\ pc' = IF r.panic THEN "panicked" ELSE "building"
    /\ UNCHANGED <<text, n_input, result>>

\* sa_builder.build(&mut sa) returns to SaIsBuilder::build:
\* Box::new(SaIsSuffixArray { sa }).
SaIsBuildFinish ==
    /\ pc = "building"
    /\ Depth = 1
    /\ Top.pc = "returned"
    /\ result' = sa
    /\ pc' = "done"
    /\ UNCHANGED <<text, n_input, sa, stack>>

\* test_short_strings: validate_suffix_array(&test_bytes, suffix_array.array()).
TestValidate ==
    /\ pc = "done"
    /\ pc' = IF ValidateSuffixArray(text, result) = "ok"
             THEN "validated" ELSE "validate_panicked"
    /\ UNCHANGED <<text, n_input, sa, stack, result>>

Next ==
    \/ SaIsBuildAbort
    \/ SaIsBuildHuge
    \/ SaIsBuildStart
    \/ DoBuildSuffixData
    \/ DoInducedSortLms
    \/ DoReduce
    \/ DoRecurse
    \/ DoMapToOriginal
    \/ DoInducedSortSorted
    \/ SaIsBuildFinish
    \/ TestValidate

Spec == Init /\ [][Next]_vars

(***************************************************************************)
(* validate_suffix_array applied to an arbitrary array over [0, |T|).      *)
(***************************************************************************)
ValTexts == TextsOver(BinaryChars, MaxValLen)

InitValidate ==
    /\ text \in ValTexts
    /\ n_input = Wide(TextLen(text))
    /\ sa \in [0..(TextLen(text) - 1) -> 0..(TextLen(text) - 1)]
    /\ stack = <<>>
    /\ pc = "validate"
    /\ result = EmptySlice

\* validate_suffix_array(text, sa) returns.
ValidateAccepts ==
    /\ pc = "validate"
    /\ ValidateSuffixArray(text, sa) = "ok"
    /\ pc' = "accepted"
    /\ UNCHANGED <<text, n_input, sa, stack, result>>

\* validate_suffix_array(text, sa) panics.
ValidatePanics ==
    /\ pc = "validate"
    /\ ValidateSuffixArray(text, sa) = "panic"
    /\ pc' = "rejected"
    /\ UNCHANGED <<text, n_input, sa, stack, result>>

NextValidate == ValidateAccepts \/ ValidatePanics

SpecValidate == InitValidate /\ [][NextValidate]_vars

(***************************************************************************)
(* Definitions of the specification, stated on the text alone.             *)
(***************************************************************************)
\* s[0..n) holds every position of [0, n) (and, having n entries, each once).
IsPermutationOf(s, n) ==
    /\ SliceLen(s) >= n
    /\ {s[i] : i \in 0..(n - 1)} = 0..(n - 1)

\* The suffixes at s[0], ..., s[n-1] are in strictly ascending order.
StrictlyAscending(t, s, n) ==
    \A i \in 0..(n - 2) : SuffixLess(t, s[i], s[i + 1])

\* Type(n-1) = L, Type(n) = S, Type(p) by the comparison with the right
\* neighbour, inherited from it when the characters are equal.
RECURSIVE TypeAt(_, _)
TypeAt(t, p) ==
    IF p = TextLen(t) THEN SType
    ELSE IF p = TextLen(t) - 1 THEN LType
    ELSE IF t[p] < t[p + 1] THEN SType
    ELSE IF t[p] > t[p + 1] THEN LType
    ELSE TypeAt(t, p + 1)

\* p is an LMS position of t (0 < p < n), or the pseudo-terminal n.
IsLmsOrEnd(t, p) ==
    /\ p \in 1..TextLen(t)
    /\ TypeAt(t, p) = SType
    /\ TypeAt(t, p - 1) = LType

\* The LMS positions of t, the pseudo-terminal excluded.
LmsSet(t) == {p \in 1..(TextLen(t) - 1) : IsLmsOrEnd(t, p)}

\* The S-type positions of t.
STypeSet(t) == {p \in 0..(TextLen(t) - 1) : TypeAt(t, p) = SType}

\* The end of the LMS substring that starts at p.
NextLms(t, p) ==
    CHOOSE q \in (p + 1)..TextLen(t) :
        /\ IsLmsOrEnd(t, q)
        /\ \A r \in (p + 1)..(q - 1) : ~IsLmsOrEnd(t, r)

\* The character at p, the sentinel of the pseudo-terminal being below all.
CharOrSentinel(t, p) == IF p = TextLen(t) THEN -1 ELSE t[p]

\* The LMS substrings at a and b have the same length, characters and types.
LmsSubstringsEqual(t, a, b) ==
    LET len_a == NextLms(t, a) - a
        len_b == NextLms(t, b) - b
    IN  /\ len_a = len_b
        /\ \A k \in 0..len_a :
              /\ CharOrSentinel(t, a + k) = CharOrSentinel(t, b + k)
              /\ TypeAt(t, a + k) = TypeAt(t, b + k)

\* The frame on top has just left induced_sort.
AfterInducedSort == pc = "building" /\ Top.pc \in {"reduce", "returned"}

(***************************************************************************)
(* C1.  For every non-empty text, SaIsBuilder::build returns the array of  *)
(* the sort-based oracle: the positions 0..|T|-1 with the suffix at SA[i]  *)
(* strictly smaller than the suffix at SA[i+1].                            *)
(***************************************************************************)
C1_BuildAgreesWithOracle ==
    pc = "done" =>
        /\ result = NaiveSuffixArray(text)
        /\ SliceLen(result) = TextLen(text)
        /\ StrictlyAscending(text, result, TextLen(text))

\* build has returned for a text that went through a recursive call.
C1_Witness ==
    /\ pc = "done"
    /\ stack[1].reduced.kind = "Reduced"
    /\ result = NaiveSuffixArray(text)

(***************************************************************************)
(* C2.  On exit from every call of induced_sort (initial and final pass,   *)
(* at every recursion level) SA[0..n) holds every position of [0, n)       *)
(* exactly once, n the length of the text of that level; build returns a   *)
(* permutation of [0, |T|).                                                *)
(***************************************************************************)
C2_InducedSortPermutation ==
    /\ AfterInducedSort => IsPermutationOf(sa, TextLen(Top.text))
    /\ pc = "done" =>
          /\ SliceLen(result) = TextLen(text)
          /\ IsPermutationOf(result, TextLen(text))

\* The final pass of a recursive call has just ended.
C2_Witness ==
    /\ pc = "building"
    /\ Depth >= 2
    /\ Top.pc = "returned"
    /\ TextLen(Top.text) >= 3
    /\ IsPermutationOf(sa, TextLen(Top.text))

(***************************************************************************)
(* C3.  For every non-empty text T and every array SA of length |T| over   *)
(* [0, |T|), validate_suffix_array(T, SA) returns without a panic if and   *)
(* only if SA is a permutation of [0, |T|) whose suffixes are in strictly  *)
(* ascending order (every adjacent pair, the last one included).           *)
(***************************************************************************)
C3_ValidatorAcceptsIffValid ==
    pc \in {"accepted", "rejected"} =>
        (pc = "accepted" <=>
            /\ IsPermutationOf(sa, TextLen(text))
            /\ StrictlyAscending(text, sa, TextLen(text)))

(***************************************************************************)
(* C4.  build applied to "aaaaaaab" returns [0,1,2,3,4,5,6,7] (amended;    *)
(* the claim as stated has [6,5,4,3,2,1,0,7]).                             *)
(***************************************************************************)
Text_aaaaaaab == Slice(<<97, 97, 97, 97, 97, 97, 97, 98>>)

C4_aaaaaaab_Amended ==
    (pc = "done" /\ text = Text_aaaaaaab) =>
        result = Slice(<<0, 1, 2, 3, 4, 5, 6, 7>>)

\* C4 as stated.
C4_aaaaaaab_Original ==
    (pc = "done" /\ text = Text_aaaaaaab) =>
        result = Slice(<<6, 5, 4, 3, 2, 1, 0, 7>>)

C4_Witness == pc = "done" /\ text = Text_aaaaaaab /\ result[0] = 0

(***************************************************************************)
(* C5.  build applied to "abcbabcba" returns [8,4,0,7,3,5,1,6,2] (amended; *)
(* the claim as stated has [8,4,0,7,3,6,2,5,1]).                           *)
(***************************************************************************)
Text_abcbabcba == Slice(<<97, 98, 99, 98, 97, 98, 99, 98, 97>>)

C5_abcbabcba_Amended ==
    (pc = "done" /\ text = Text_abcbabcba) =>
        result = Slice(<<8, 4, 0, 7, 3, 5, 1, 6, 2>>)

\* C5 as stated.
C5_abcbabcba_Original ==
    (pc = "done" /\ text = Text_abcbabcba) =>
        result = Slice(<<8, 4, 0, 7, 3, 6, 2, 5, 1>>)

C5_Witness == pc = "done" /\ text = Text_abcbabcba /\ result[5] = 5

(***************************************************************************)
(* C6.  build returns [0] for "a", [7,6,5,4,3,2,1,0] for "baaaaaaa",       *)
(* [7,6,5,4,3,2,0,1] for "abaaaaaa" and [6,4,2,0,7,5,3,1] for "abababab".  *)
(***************************************************************************)
C6_ScenarioTable ==
    pc = "done" =>
        /\ text = Slice(<<97>>) => result = Slice(<<0>>)
        /\ text = Slice(<<98, 97, 97, 97, 97, 97, 97, 97>>)
              => result = Slice(<<7, 6, 5, 4, 3, 2, 1, 0>>)
        /\ text = Slice(<<97, 98, 97, 97, 97, 97, 97, 97>>)
              => result = Slice(<<7, 6, 5, 4, 3, 2, 0, 1>>)
        /\ text = Slice(<<97, 98, 97, 98, 97, 98, 97, 98>>)
              => result = Slice(<<6, 4, 2, 0, 7, 5, 3, 1>>)

C6_Witness ==
    /\ pc = "done"
    /\ text = Slice(<<97, 98, 97, 98, 97, 98, 97, 98>>)
    /\ result = Slice(<<6, 4, 2, 0, 7, 5, 3, 1>>)

C8_ReturnedTails_Amended ==
    AfterInducedSort =>
        LET t == Top.text
            s_type == STypeSet(t)
        IN  /\ DOMAIN Top.returned_tails = 0..(Top.alphabet_size - 1)
            /\ \A c \in DOMAIN Top.returned_tails :
                  Top.returned_tails[c] =
                      Cardinality({p \in s_type : t[p] = c})

\* C8 as stated.
C8_ReturnedTails_Original ==
    AfterInducedSort =>
        LET t == Top.text
            lms == LmsSet(t)
        IN  \A c \in DOMAIN Top.returned_tails :
                Top.returned_tails[c] = Cardinality({p \in lms : t[p] = c})

\* A final pass has returned the count of an S-type position that is not LMS.
C8_Witness ==
    /\ AfterInducedSort
    /\ Top.pc = "returned"
    /\ \E c \in DOMAIN Top.returned_tails :
          /\ Top.returned_tails[c] >= 2
          /\ Top.returned_tails[c] >
                 Cardinality({p \in LmsSet(Top.text) : Top.text[p] = c})

(***************************************************************************)
(* C9.  For every pair of LMS positions (a, b) that reduce passes to       *)
(* lms_strings_equal, the call returns true if and only if the LMS         *)
(* substrings at a and at b have the same length, the same characters and  *)
(* the same L/S types; an LMS substring that ends at the pseudo-terminal   *)
(* is never reported equal to another one.                                 *)
(***************************************************************************)
C9_LmsStringsEqual ==
    \A d \in 1..Depth :
        LET t == stack[d].text
            calls == stack[d].reduced.lms_calls
        IN  \A k \in 1..Len(calls) :
                LET a == calls[k][1]
                    b == calls[k][2]
                IN  /\ a \in LmsSet(t) /\ b \in LmsSet(t)
                    /\ calls[k][3] = "true" <=> LmsSubstringsEqual(t, a, b)
                    /\ (NextLms(t, a) = TextLen(t) \/ NextLms(t, b) = TextLen(t))
                          => calls[k][3] # "true"

\* reduce found two equal LMS substrings, and compared one that ends at the
\* pseudo-terminal.
C9_Witness ==
    /\ Depth >= 1
    /\ \E k \in 1..Len(Top.reduced.lms_calls) :
          Top.reduced.lms_calls[k][3] = "true"
    /\ \E k \in 1..Len(Top.reduced.lms_calls) :
          NextLms(Top.text, Top.reduced.lms_calls[k][1]) = TextLen(Top.text)

(***************************************************************************)
(* C10.  At every recursion level, immediately before the final            *)
(* induced_sort call, SA[0..m) holds every LMS position of the text of     *)
(* that level exactly once, in strictly ascending order of their suffixes: *)
(* after reduce returned Sorted(m), and after the recursive call and the   *)
(* mapping back.                                                           *)
(***************************************************************************)
C10_SortedLmsBeforeFinalPass ==
    (pc = "building" /\ Top.pc = "induced_sort_sorted") =>
        LET t == Top.text
            m == Top.reduced.num_lms
        IN  /\ m = Cardinality(LmsSet(t))
            /\ {sa[i] : i \in 0..(m - 1)} = LmsSet(t)
            /\ StrictlyAscending(t, sa, m)

\* Back from a recursive call, positions mapped, final pass not yet run.
C10_Witness ==
    /\ pc = "building"
    /\ Top.pc = "induced_sort_sorted"
    /\ Top.reduced.kind = "Reduced"
    /\ Top.reduced.num_lms >= 3
    /\ StrictlyAscending(Top.text, sa, Top.reduced.num_lms)

\* The k-th LMS position of t in ascending text order, k from 0.
LmsAt(t, k) ==
    CHOOSE p \in LmsSet(t) : Cardinality({q \in LmsSet(t) : q < p}) = k

\* reduce has just returned ReducedText::Reduced to the frame on top.
AfterReduceReduced == pc = "building" /\ Top.pc = "recurse"

(***************************************************************************)
(* C11.  When reduce returns Reduced(reduced_text, alphabet_size):         *)
(* reduced_text has length m, the number of LMS positions; reduced_text[j] *)
(* is the name of the j-th LMS position in ascending text order: two LMS   *)
(* positions have the same name iff their LMS substrings are equal, and a  *)
(* smaller name implies a lexicographically smaller suffix of the text;    *)
(* the names used are exactly 0..alphabet_size-1; alphabet_size < m.       *)
(***************************************************************************)
C11_ReducedText ==
    AfterReduceReduced =>
        LET t == Top.text
            m == Cardinality(LmsSet(t))
            reduced_text == Top.reduced.reduced_text
            alphabet_size == Top.reduced.alphabet_size
        IN  /\ Top.reduced.kind = "Reduced"
            /\ Top.reduced.num_lms = m
            /\ DOMAIN reduced_text = 0..(m - 1)
            /\ \A j, k \in 0..(m - 1) :
                  /\ (reduced_text[j] = reduced_text[k])
                        <=> LmsSubstringsEqual(t, LmsAt(t, j), LmsAt(t, k))
                  /\ (reduced_text[j] < reduced_text[k])
                        => SuffixLess(t, LmsAt(t, j), LmsAt(t, k))
            /\ {reduced_text[j] : j \in 0..(m - 1)} = 0..(alphabet_size - 1)
            /\ alphabet_size < m

\* A reduced text of four names or more in which a name occurs twice and
\* the names are not in text order.
C11_Witness ==
    /\ AfterReduceReduced
    /\ Top.reduced.kind = "Reduced"
    /\ Top.reduced.num_lms >= 4
    /\ Top.reduced.alphabet_size >= 3
    /\ \E j, k \in DOMAIN Top.reduced.reduced_text :
          j < k /\ Top.reduced.reduced_text[j] > Top.reduced.reduced_text[k]

(***************************************************************************)
(* C12.  After reduce returns Reduced, for every k in [0, m) the value     *)
(* 2 * SA[m+k], plus 1 when the L/S type at 2 * SA[m+k] is not S, is the   *)
(* k-th LMS position of the text in ascending text order.                  *)
(***************************************************************************)
C12_RecoveryRoundTrip ==
    AfterReduceReduced =>
        LET t == Top.text
            m == Top.reduced.num_lms
            ls_type == LsTypeOf(Top.suffix_data)
        IN  \A k \in 0..(m - 1) :
                /\ InBounds(sa, m + k)
                /\ InBounds(ls_type, 2 * sa[m + k])
                /\ LmsAt(t, k) = IF ls_type[2 * sa[m + k]] # SType
                                 THEN 2 * sa[m + k] + 1
                                 ELSE 2 * sa[m + k]

\* The table holds the half of an odd and the half of an even LMS position.
C12_Witness ==
    /\ AfterReduceReduced
    /\ Top.reduced.kind = "Reduced"
    /\ \E k \in 0..(Top.reduced.num_lms - 1) :
          LmsAt(Top.text, k) = 2 * sa[Top.reduced.num_lms + k] + 1
    /\ \E k \in 0..(Top.reduced.num_lms - 1) :
          /\ LmsAt(Top.text, k) = 2 * sa[Top.reduced.num_lms + k]
          /\ sa[Top.reduced.num_lms + k] > k


\* A recursive call has just returned to the map-back loop of its caller:
\* the frame on top is the child, the one below it the caller.
ChildReturned == pc = "building" /\ Depth >= 2 /\ Top.pc = "returned"

(***************************************************************************)
(* C13.  A recursive build call on a reduced text of length m writes only  *)
(* indices of SA below m, at every nested level: while a call on a text of *)
(* length m is on the stack, no step changes an entry SA[i] with i >= m;   *)
(* when the call returns, the recovery table SA[m..2m) of its caller is    *)
(* what reduce left there.                                                 *)
(***************************************************************************)
C13_ChildWritesBelowM ==
    /\ [][\A d \in 2..Depth :
             d <= Depth' =>
                 \A i \in DOMAIN sa :
                     i >= TextLen(stack[d].text) =>
                         (InBounds(sa', i) /\ sa'[i] = sa[i])]_vars
    /\ [](ChildReturned =>
             LET caller == stack[Depth - 1]
                 m == caller.reduced.num_lms
             IN  /\ TextLen(Top.text) = m
                 /\ \A k \in 0..(m - 1) :
                       sa[m + k] = LmsAt(caller.text, k) \div 2)

\* A recursive call that itself reduced and recursed has returned: SA[0..m)
\* is the suffix array of the reduced text, the recovery table is in place.
C13_Witness ==
    /\ ChildReturned
    /\ Top.reduced.kind = "Reduced"
    /\ \A i \in 0..(TextLen(Top.text) - 1) :
          sa[i] = NaiveSuffixArray(Top.text)[i]
    /\ \A k \in 0..(TextLen(Top.text) - 1) :
          sa[TextLen(Top.text) + k] = LmsAt(stack[Depth - 1].text, k) \div 2


\* The frame on top has run reduce.
AfterReduce == Depth >= 1 /\ Top.reduced.kind # "none"

(***************************************************************************)
(* C14.  After the first loop of reduce, SA[0..m) holds every LMS position *)
(* of the text exactly once, in the relative order they had in SA after    *)
(* the initial induced sort; m is the number of LMS positions and          *)
(* m <= n div 2, so that assert!(num_lms <= text_len / 2) holds; each copy *)
(* writes at or below the index it has just read, and reads the value the  *)
(* induced sort left there.                                                *)
(***************************************************************************)
C14_FirstLoopOfReduce ==
    AfterReduce =>
        LET t == Top.text
            n == TextLen(t)
            m == Top.reduced.num_lms
            sa_in == Top.reduced.first_loop.sa_in
            sa_out == Top.reduced.first_loop.sa_out
            log == Top.reduced.first_loop.log
        IN  /\ m = Cardinality(LmsSet(t))
            /\ m <= n \div 2
            /\ {sa_out[i] : i \in 0..(m - 1)} = LmsSet(t)
            /\ Len(log) = m
            /\ \A j \in 1..m :
                  /\ log[j][2] = j - 1
                  /\ log[j][2] <= log[j][1]
                  /\ log[j][3] = sa_in[log[j][1]]
                  /\ sa_out[j - 1] = log[j][3]
                  /\ j < m => log[j][1] < log[j + 1][1]
            /\ \A i \in 0..(n - 1) :
                  sa_in[i] \in LmsSet(t) => \E j \in 1..m : log[j][1] = i
            /\ Top.reduced.kind # "panic"

\* Three LMS positions or more were moved, the last one to a lower index,
\* and the order in SA is not the order in the text.
C14_Witness ==
    /\ AfterReduce
    /\ Top.reduced.num_lms >= 3
    /\ LET log == Top.reduced.first_loop.log
       IN  /\ log[Len(log)][2] < log[Len(log)][1]
           /\ \E j \in 1..(Len(log) - 1) : log[j][3] > log[j + 1][3]


(***************************************************************************)
(* The build under the scheduling of a sequential program: a step that can *)
(* be taken is taken.  This is weak fairness of Next, WF_vars(Next), in    *)
(* the form <>[]enabled => []<>step with the enabling condition of Next    *)
(* written out: every action of Next is a guard on pc, Depth and Top.pc    *)
(* followed by assignments, and the guards cover every state in which the  *)
(* program has neither returned nor aborted.                               *)
(***************************************************************************)
\* Some action of Next is enabled.
CanStep == pc \in {"start", "building", "done"}

SpecLive ==
    Init /\ [][Next]_vars /\ ([]<>(~CanStep) \/ []<><<Next>>_vars)

(***************************************************************************)
(* C15.  For every non-empty text, build terminates: every recursive call  *)
(* is made on a reduced text of length m with 2 <= m <= n div 2, n the     *)
(* length of the text of the caller; the number of nested recursive calls  *)
(* is at most log2 of the length of the input; no loop of a level runs off *)
(* its array (the name-compaction loop stops at the m-th non-NULL slot);   *)
(* a build that has started returns.                                       *)
(***************************************************************************)
C15_BuildTerminates ==
    /\ [](\A d \in 2..Depth :
             /\ 2 <= TextLen(stack[d].text)
             /\ TextLen(stack[d].text) <= TextLen(stack[d - 1].text) \div 2)
    /\ [](Depth >= 1 => 2 ^ (Depth - 1) <= TextLen(text))
    /\ [](pc # "panicked")
    /\ (pc = "building") ~> (pc = "done")

\* Two nested recursive calls were made and the inner one has returned.
C15_Witness ==
    /\ pc = "building"
    /\ Depth >= 3
    /\ Top.pc = "returned"
    /\ TextLen(Top.text) >= 2


\* build_suffix_data has just returned to the frame on top.
AfterBuildSuffixData == pc = "building" /\ Top.pc = "induced_sort_lms"

(***************************************************************************)
(* C16.  For every text of length n >= 1 of a level, build_suffix_data     *)
(* yields Type(n-1) = L, Type(n) = S and, for every p < n-1, Type(p) = S   *)
(* if T[p] < T[p+1], L if T[p] > T[p+1], Type(p+1) if the characters are   *)
(* equal; the slot in front of position 0 is NA.                           *)
(***************************************************************************)
C16_Classification ==
    AfterBuildSuffixData =>
        LET t == Top.text
            n == TextLen(t)
            ls_type == LsTypeOf(Top.suffix_data)
        IN  /\ n >= 1
            /\ DOMAIN Top.suffix_data.ls_type_buffer = 0..(n + 1)
            /\ Top.suffix_data.ls_type_buffer[0] = NAType
            /\ PrevLsTypeOf(Top.suffix_data)[0] = NAType
            /\ DOMAIN ls_type = 0..n
            /\ ls_type[n - 1] = LType
            /\ ls_type[n] = SType
            /\ \A p \in 0..(n - 2) :
                  ls_type[p] = IF t[p] < t[p + 1] THEN SType
                               ELSE IF t[p] > t[p + 1] THEN LType
                               ELSE ls_type[p + 1]

\* A reduced text in which a name inherits the type S from the equal name
\* to its right.
C16_Witness ==
    /\ AfterBuildSuffixData
    /\ Depth >= 2
    /\ TextLen(Top.text) >= 3
    /\ \E p \in 0..(TextLen(Top.text) - 2) :
          /\ Top.text[p] = Top.text[p + 1]
          /\ LsTypeOf(Top.suffix_data)[p] = SType
          /\ LsTypeOf(Top.suffix_data)[p + 1] = SType


(***************************************************************************)
(* C17.  During every build of a non-empty text, at every recursion level, *)
(* no call of lms_strings_equal made by reduce reads a character at an     *)
(* index >= n or an L/S type at an index > n: every call returns true or   *)
(* false, none panics; reduce itself does not panic.                       *)
(***************************************************************************)
C17_LmsStringsEqualInBounds ==
    AfterReduce =>
        /\ \A k \in 1..Len(Top.reduced.lms_calls) :
              /\ Top.reduced.lms_calls[k][3] \in {"true", "false"}
              /\ Top.reduced.lms_calls[k][1] \in 1..(TextLen(Top.text) - 1)
              /\ Top.reduced.lms_calls[k][2] \in 1..(TextLen(Top.text) - 1)
        /\ Top.reduced.num_lms >= 2
              => Len(Top.reduced.lms_calls) = Top.reduced.num_lms - 1
        /\ pc # "panicked"

\* reduce compared the LMS substring that ends at the pseudo-terminal with
\* a longer one; the same call with a and b exchanged runs past the end.
C17_Witness ==
    /\ AfterReduce
    /\ \E k \in 1..Len(Top.reduced.lms_calls) :
          LET a == Top.reduced.lms_calls[k][1]
              b == Top.reduced.lms_calls[k][2]
          IN  /\ NextLms(Top.text, a) = TextLen(Top.text)
              /\ Top.reduced.lms_calls[k][3] = "false"
              /\ LmsStringsEqual(Top.text, b, a, LsTypeOf(Top.suffix_data))
                    = "panic"


\* The seeds sa0[0..m) whose first character is c, in the order of sa0.
SeedsOfBucket(t, sa0, m, c) ==
    LET HasChar(p) == t[p] = c
    IN  SelectSeq([i \in 1..m |-> sa0[i - 1]], HasChar)

(***************************************************************************)
(* C18.  In the final pass, seeding reads SA[i] for i = m-1 down to 0 and  *)
(* writes each value to a bucket tail of the same buffer: it reads the     *)
(* value that was supplied at i, every write lands on an index >= i, and   *)
(* after seeding the tail region of each bucket holds exactly the supplied *)
(* LMS positions with that first character, in the supplied (ascending)    *)
(* order.                                                                  *)
(***************************************************************************)
C18_FinalPassSeeding ==
    [][(pc = "building" /\ Top.pc = "induced_sort_sorted") =>
          LET t == Top.text
              m == Top.reduced.num_lms
              buckets == Top.suffix_data.buckets
              seeding == Top'.seeding
          IN  /\ pc' = "building"
              /\ Len(seeding.log) = m
              /\ \A j \in 1..m :
                    /\ seeding.log[j][1] = m - j
                    /\ seeding.log[j][2] = sa[m - j]
                    /\ seeding.log[j][3] >= m - j
              /\ \A c \in DOMAIN buckets :
                    LET seeds == SeedsOfBucket(t, sa, m, c)
                    IN  /\ seeding.bucket_tails[c] = Len(seeds)
                        /\ \A x \in 1..Len(seeds) :
                              /\ seeding.sa[buckets[c].end - Len(seeds) + x - 1]
                                    = seeds[x]
                              /\ x < Len(seeds)
                                    => SuffixLess(t, seeds[x], seeds[x + 1])]_vars

\* A final pass was seeded with three LMS positions or more, two of them in
\* one bucket, and one of them was written at the index it was read from.
C18_Witness ==
    /\ pc = "building"
    /\ Top.pc = "returned"
    /\ Len(Top.seeding.log) >= 3
    /\ \E c \in DOMAIN Top.seeding.bucket_tails :
          Top.seeding.bucket_tails[c] >= 2
    /\ \E j \in 1..Len(Top.seeding.log) :
          Top.seeding.log[j][3] = Top.seeding.log[j][1]

====
